---- MODULE Spec2Model ----
(***************************************************************************)
(* Duplex audio engine of the voice assistant: the VoiceState machine      *)
(* (main.c), the capture loop (main.c), the receive task (udp_client.c)    *)
(* and the queue-based playback worker (audio_handler.c).                  *)
(*                                                                         *)
(* Three kinds of FreeRTOS tasks run concurrently: the capture task        *)
(* "cap" (voice_assistant_task), the receive task "rx" (udp_receive_task)  *)
(* and the playback workers (queue_playback_task), one per successful      *)
(* audio_playback_queue_start.  Every read or write of a shared variable   *)
(* that another task can observe is a step of its own.                     *)
(***************************************************************************)
EXTENDS Integers, Sequences, FiniteSets, TLC

(***************************************************************************)
(* Bounds of the model.  The first three are program constants scaled down *)
(* (3500 slots, 10 blocks, 5000 ms in the source).                         *)
(***************************************************************************)
AUDIO_QUEUE_LENGTH == 2
MIN_PREBUFFER_CHUNKS == 2
SILENCE_DURATION_MS == 2
\* playback workers that can exist at the same time
MaxWorkers == 2
\* outgoing sequence numbers 0..MaxSeq
MaxSeq == 3
\* blocks in one utterance of the peer
MaxUtterance == 2
\* total_chunks_played and queue_underrun_count saturate here
MaxCount == 1
\* the uint32_t sequence arithmetic of the receive task is done modulo SeqMod
SeqMod == 16
\* the largest value of a datagram's first byte
MaxByte == 255
\* the longest block of samples audio_calculate_rms is applied to
MaxSamples == 3
\* the samples of a resampled block (the code's blocks have 960)
BlockSamples == 2

(***************************************************************************)
(* Program constants.                                                      *)
(***************************************************************************)
RMS_THRESHOLD_NORMAL == 100
RMS_THRESHOLD_INTERRUPT == 400
AUDIO_RMS_STOP_THRESHOLD == 500
MAX_CHUNK_BYTES == 1440
AUDIO_CHUNK_SIZE_CAPTURE == 3840
AUDIO_CHUNK_SIZE_OUTPUT == 1920
UDP_MSG_AUDIO_DATA == 16
UDP_MSG_PLAY_AUDIO == 32
UDP_MSG_PLAY_AUDIO_LAST == 33
UDP_MSG_STATE_IDLE == 48
UDP_MSG_STATE_USER_SPEAKING == 49
UDP_MSG_STATE_AI_SPEAKING == 50
UDP_MSG_INTERRUPT == 64
UDP_MSG_PLAYBACK_COMPLETE == 80
AUDIO_HEADER_BYTES == 5

\* voice_state_t
STATE_IDLE == "STATE_IDLE"
STATE_USER_SPEAKING == "STATE_USER_SPEAKING"
STATE_AI_SPEAKING == "STATE_AI_SPEAKING"
VoiceStates == {STATE_IDLE, STATE_USER_SPEAKING, STATE_AI_SPEAKING}

Tasks == {"cap", "rx"}
Workers == 1..MaxWorkers
\* NULL task handle / unheld mutex / no chunk in hand
NULL == 0
FREE == "free"
NoChunk == [length |-> 0, sequence |-> 0, is_last_chunk |-> FALSE, stale |-> FALSE]

VARIABLES
    \* main.c
    current_state,              \* the authoritative VoiceState
    state_mutex,                \* FREE or the task holding it
    pc,                         \* position of "cap" and "rx"
    new_state,                  \* argument of the set_voice_state call in progress
    old_state,                  \* old_state local of set_voice_state
    silence_start,              \* -1: the C value 0 (timer off); n >= 0: ms since it was set
    sequence,                   \* outgoing sequence counter of the capture loop
    branch,                     \* switch case of the capture loop being executed
    rms,                        \* loudness of the block of the iteration in progress
                                \* (0 between two iterations)
    boot,                       \* position of app_main
    \* audio_handler.c
    audio_playback_queue,       \* the FreeRTOS queue of audio_chunk_t
    queue_playback_active,
    queue_playback_task_handle,
    tx_enabled,                 \* I2S TX channel enabled
    total_chunks_played,
    queue_underrun_count,
    wpc,                        \* position of each playback worker
    chunk,                      \* chunk local of each playback worker
    \* udp_client.c
    last_received_seq,
    packets_lost,
    \* history (observations of what the code did, never read by the code)
    sfx,                        \* side effects run so far by the set_voice_state call of a task
    reached,                    \* queue depth reached MIN_PREBUFFER_CHUNKS since the last start
    wlog,                       \* per worker: what it did since it was created
    held,                       \* ms for which the capture loop has seen loudness below the
                                \* stop threshold in USER_SPEAKING without a break; -1: not at all
    event                       \* what the last step did to the outside (device, peer, caller)

vars == <<current_state, state_mutex, pc, new_state, old_state, silence_start,
          sequence, branch, rms, audio_playback_queue, queue_playback_active,
          queue_playback_task_handle, tx_enabled, total_chunks_played,
          queue_underrun_count, wpc, chunk, last_received_seq, packets_lost,
          sfx, reached, wlog, held, event, boot>>

mainVars == <<current_state, state_mutex, pc, new_state, old_state>>
capVars == <<silence_start, sequence, branch, held, rms>>
lossVars == <<last_received_seq, packets_lost>>
metricVars == <<total_chunks_played, queue_underrun_count>>
playVars == <<audio_playback_queue, queue_playback_active, queue_playback_task_handle,
              tx_enabled, wpc, chunk>>

Min(a, b) == IF a < b THEN a ELSE b
Bump(n) == Min(n + 1, MaxCount)

NoEvent == [kind |-> "none"]
NoLog == [stopInPrebuf |-> FALSE, enabled |-> FALSE, finals |-> 0, completes |-> 0,
          flushed |-> FALSE]

(***************************************************************************)
(* app_main: the start-up calls, in their order.  boot is the call app_main *)
(* makes next:                                                             *)
(*   "udp_init"     udp_client_init (NVS, the event loop, state_mutex and  *)
(*                  Wi-Fi are done)                                        *)
(*   "register"     udp_register_state_callback(set_voice_state)           *)
(*   "audio_init"   audio_init                                             *)
(*   "queue_init"   audio_playback_queue_init                              *)
(*   "create_task"  xTaskCreatePinnedToCore(voice_assistant_task)          *)
(*   "ready"        none: the start-up is over                             *)
(*   "no_udp", "no_audio", "no_queue"  none: app_main has returned after   *)
(*                  the failure of that call                               *)
(*   "panic"        none: the system has stopped on a failed assertion or  *)
(*                  an illegal access                                      *)
(***************************************************************************)
\* xTaskCreate(udp_receive_task, ...) at the end of udp_client_init
ReceiveTaskCreated == boot \notin {"udp_init", "no_udp"}

\* state_change_callback != NULL
CallbackRegistered == boot \notin {"udp_init", "no_udp", "register"}

\* tx_handle != NULL: audio_init has created the I2S channels
TxHandleSet == boot \in {"queue_init", "no_queue", "create_task", "ready"}

\* audio_playback_queue != NULL
QueueCreated == boot \in {"create_task", "ready"}

\* voice_assistant_task exists
CaptureTaskCreated == boot = "ready"


(***************************************************************************)
(* The playback queue (FreeRTOS queue, each operation atomic).             *)
(***************************************************************************)
\* uxQueueMessagesWaiting
QueueDepth == Len(audio_playback_queue)

\* (variant: a full queue gives up its oldest chunk)
QueueSend_overwrites(q, c) ==
    IF Len(q) < AUDIO_QUEUE_LENGTH THEN Append(q, c) ELSE Append(Tail(q), c)

\* xQueueSend(audio_playback_queue, &chunk, 0): the queue after the call
QueueSend(q, c) == IF Len(q) < AUDIO_QUEUE_LENGTH THEN Append(q, c) ELSE q

\* audio_playback_queue_push
audio_playback_queue_push(len, seq, is_last) ==
    LET c == [length |-> Min(len, MAX_CHUNK_BYTES), sequence |-> seq,
              is_last_chunk |-> is_last, stale |-> FALSE]
    IN  IF QueueCreated
        THEN /\ audio_playback_queue' = QueueSend(audio_playback_queue, c)
             /\ reached' =
                  (reached \/ Len(audio_playback_queue') >= MIN_PREBUFFER_CHUNKS)
        ELSE UNCHANGED <<audio_playback_queue, reached>>

(***************************************************************************)
(* queue_playback_task: one playback worker w.                             *)
(*   "none"    no such task (never created, or deleted)                    *)
(*   "init"    created, before the metric reset and i2s_channel_enable     *)
(*   "prebuf"  in the pre-buffer wait loop                                 *)
(*   "loop"    at the condition of the playing loop                        *)
(*   "recv"    in xQueueReceive(..., 500 ms)                               *)
(*   "write"   holding a popped chunk, before i2s_channel_write            *)
(*   "drain"   in the 220 ms settle wait after a final chunk               *)
(*   "exit"    left the loop, before the silence flush                     *)
(*   "disable" before i2s_channel_disable                                  *)
(***************************************************************************)
\* the worker's metric reset and i2s_channel_enable; ok: whether enable succeeds
TaskInit(w) ==
    /\ wpc[w] = "init"
    /\ total_chunks_played' = 0
    /\ queue_underrun_count' = 0
    /\ \E ok \in BOOLEAN :
         IF ok
         THEN /\ tx_enabled' = TRUE
              /\ wpc' = [wpc EXCEPT ![w] = "prebuf"]
              /\ wlog' = [wlog EXCEPT ![w].enabled = TRUE]
              /\ UNCHANGED queue_playback_active
         ELSE /\ queue_playback_active' = FALSE
              /\ wpc' = [wpc EXCEPT ![w] = "none"]
              /\ UNCHANGED <<tx_enabled, wlog>>
    /\ event' = NoEvent
    /\ UNCHANGED <<mainVars, capVars, lossVars, boot, audio_playback_queue,
                   queue_playback_task_handle, chunk, sfx, reached>>

\* the condition of the pre-buffer wait loop: TRUE while the worker keeps waiting
PrebufferWaits ==
    queue_playback_active /\ QueueDepth < MIN_PREBUFFER_CHUNKS

\* while (queue_playback_active && uxQueueMessagesWaiting(...) < MIN_PREBUFFER_CHUNKS)
TaskPrebuffer(w) ==
    /\ wpc[w] = "prebuf"
    /\ ~PrebufferWaits
    /\ wpc' = [wpc EXCEPT ![w] = "loop"]
    /\ event' = NoEvent
    /\ UNCHANGED <<mainVars, capVars, lossVars, boot, metricVars, audio_playback_queue,
                   queue_playback_active, queue_playback_task_handle, tx_enabled,
                   chunk, sfx, reached, wlog>>

\* while (queue_playback_active)
TaskLoopCheck(w) ==
    /\ wpc[w] = "loop"
    /\ wpc' = [wpc EXCEPT ![w] = IF queue_playback_active THEN "recv" ELSE "exit"]
    /\ event' = NoEvent
    /\ UNCHANGED <<mainVars, capVars, lossVars, boot, metricVars, audio_playback_queue,
                   queue_playback_active, queue_playback_task_handle, tx_enabled,
                   chunk, sfx, reached, wlog>>

\* xQueueReceive returned pdTRUE: the chunk is popped and the metrics updated
TaskReceive(w) ==
    /\ wpc[w] = "recv"
    /\ audio_playback_queue # <<>>
    /\ chunk' = [chunk EXCEPT ![w] = Head(audio_playback_queue)]
    /\ audio_playback_queue' = Tail(audio_playback_queue)
    /\ total_chunks_played' = Bump(total_chunks_played)
    /\ wpc' = [wpc EXCEPT ![w] = "write"]
    /\ event' = NoEvent
    /\ UNCHANGED <<mainVars, capVars, lossVars, boot, queue_underrun_count,
                   queue_playback_active, queue_playback_task_handle, tx_enabled,
                   sfx, reached, wlog>>

\* whether a pop that timed out is counted as an underrun
CountsAsUnderrun == queue_playback_active /\ total_chunks_played > 0

\* xQueueReceive timed out (the queue stayed empty for 500 ms): an underrun
\* is counted and a block of silence written
TaskTimeout(w) ==
    /\ wpc[w] = "recv"
    /\ audio_playback_queue = <<>>
    /\ IF CountsAsUnderrun
       THEN /\ queue_underrun_count' = Bump(queue_underrun_count)
            /\ event' = IF tx_enabled THEN [kind |-> "silence", w |-> w] ELSE NoEvent
       ELSE /\ UNCHANGED queue_underrun_count
            /\ event' = NoEvent
    /\ wpc' = [wpc EXCEPT ![w] = "loop"]
    /\ UNCHANGED <<mainVars, capVars, lossVars, boot, total_chunks_played,
                   audio_playback_queue, queue_playback_active,
                   queue_playback_task_handle, tx_enabled, chunk, sfx, reached,
                   wlog>>

\* (variant: the worker treats a final chunk like any other)
AfterWrite_ignoresLast(c) == "loop"

\* where the worker continues after writing chunk c
AfterWrite(c) == IF c.is_last_chunk THEN "drain" ELSE "loop"

\* i2s_channel_write of the popped chunk; it fails on a disabled channel
TaskWrite(w) ==
    /\ wpc[w] = "write"
    /\ IF tx_enabled
       THEN /\ event' = [kind |-> "write", w |-> w, stale |-> chunk[w].stale,
                         last |-> chunk[w].is_last_chunk, reached |-> reached,
                         active |-> queue_playback_active,
                         seq |-> chunk[w].sequence]
            /\ wlog' = [wlog EXCEPT ![w].finals =
                          IF chunk[w].is_last_chunk THEN Min(@ + 1, 2) ELSE @]
       ELSE /\ event' = [kind |-> "write_failed", w |-> w,
                         seq |-> chunk[w].sequence]
            /\ UNCHANGED wlog
    /\ wpc' = [wpc EXCEPT ![w] = AfterWrite(chunk[w])]
    /\ chunk' = [chunk EXCEPT ![w] = NoChunk]
    /\ UNCHANGED <<mainVars, capVars, lossVars, boot, metricVars, audio_playback_queue,
                   queue_playback_active, queue_playback_task_handle, tx_enabled,
                   sfx, reached>>

\* the settle wait is over: metrics reset, udp_send_playback_complete,
\* queue_playback_active = false; break
TaskDrain(w) ==
    /\ wpc[w] = "drain"
    /\ total_chunks_played' = 0
    /\ queue_underrun_count' = 0
    /\ wlog' = [wlog EXCEPT ![w].completes = Min(@ + 1, 2)]
    /\ event' = [kind |-> "complete", type |-> UDP_MSG_PLAYBACK_COMPLETE, w |-> w]
    /\ queue_playback_active' = FALSE
    /\ wpc' = [wpc EXCEPT ![w] = "exit"]
    /\ UNCHANGED <<mainVars, capVars, lossVars, boot, audio_playback_queue,
                   queue_playback_task_handle, tx_enabled, chunk, sfx, reached>>

\* the milliseconds the worker waits between the silence write and
\* i2s_channel_disable: after free(silence_buffer) there is a log line only
FlushWaitMs == 0

\* the silence flush before disable: calloc of the silence buffer (allocated:
\* whether it succeeds) and, if it does, i2s_channel_write of the block, which
\* fails on a disabled channel; the result of the write is not looked at
TaskFlush(w) ==
    /\ wpc[w] = "exit"
    /\ wpc' = [wpc EXCEPT ![w] = "disable"]
    /\ \E allocated \in BOOLEAN :
         /\ wlog' = [wlog EXCEPT ![w].flushed = allocated /\ tx_enabled]
         /\ event' = [kind |-> "flush", w |-> w, allocated |-> allocated,
                      written |-> allocated /\ tx_enabled]
    /\ UNCHANGED <<mainVars, capVars, lossVars, boot, metricVars, audio_playback_queue,
                   queue_playback_active, queue_playback_task_handle, tx_enabled,
                   chunk, sfx, reached>>

\* i2s_channel_disable; queue_playback_task_handle = NULL; vTaskDelete(NULL)
TaskDisable(w) ==
    /\ wpc[w] = "disable"
    /\ tx_enabled' = FALSE
    /\ queue_playback_task_handle' = NULL
    /\ wpc' = [wpc EXCEPT ![w] = "none"]
    /\ event' = [kind |-> "worker_exit", w |-> w, final |-> wlog[w].completes > 0,
                  flushed |-> wlog[w].flushed, waited |-> FlushWaitMs]
    /\ wlog' = [wlog EXCEPT ![w].flushed = FALSE]
    /\ UNCHANGED <<mainVars, capVars, lossVars, boot, metricVars, audio_playback_queue,
                   queue_playback_active, chunk, sfx, reached>>

(***************************************************************************)
(* audio_playback_queue_stop and audio_playback_queue_start, called by     *)
(* task t from set_voice_state with state_mutex held.                      *)
(***************************************************************************)
\* (variant: no interrupt signal after the stop)
AfterStop_noInterrupt(t) == "unlock"

\* where set_voice_state continues after audio_playback_queue_stop returns
AfterStop(t) ==
    IF new_state[t] = STATE_USER_SPEAKING THEN "intr" ELSE "unlock"

\* (variant: audio_playback_queue_stop without its early return)
StopReturnsEarly_never == FALSE

\* the early return of audio_playback_queue_stop
StopReturnsEarly == ~queue_playback_active

\* if (!queue_playback_active) return; queue_playback_active = false;
StopCheck(t) ==
    /\ pc[t] = "stop_chk"
    /\ sfx' = [sfx EXCEPT ![t] = Append(@, "stop")]
    /\ IF StopReturnsEarly
       THEN /\ pc' = [pc EXCEPT ![t] = AfterStop(t)]
            /\ event' = [kind |-> "stop_return", t |-> t, early |-> TRUE]
            /\ UNCHANGED <<queue_playback_active, wlog>>
       ELSE /\ queue_playback_active' = FALSE
            /\ pc' = [pc EXCEPT ![t] = "stop_wait"]
            /\ event' = NoEvent
            /\ wlog' = [w \in Workers |->
                          IF wpc[w] = "prebuf" /\ PrebufferWaits
                          THEN [wlog[w] EXCEPT !.stopInPrebuf = TRUE]
                          ELSE wlog[w]]
    /\ UNCHANGED <<current_state, state_mutex, new_state, old_state, capVars,
                   lossVars, boot, metricVars, audio_playback_queue,
                   queue_playback_task_handle, tx_enabled, wpc, chunk, reached>>

\* the condition that ends the wait loop of audio_playback_queue_stop
StopWaitOver == queue_playback_task_handle = NULL

\* while (queue_playback_task_handle != NULL) vTaskDelay(10 ms)
StopWait(t) ==
    /\ pc[t] = "stop_wait"
    /\ StopWaitOver
    /\ pc' = [pc EXCEPT ![t] = "stop_purge"]
    /\ event' = NoEvent
    /\ UNCHANGED <<current_state, state_mutex, new_state, old_state, capVars,
                   lossVars, boot, metricVars, playVars, sfx, reached, wlog>>

\* while (xQueueReceive(audio_playback_queue, &dummy, 0) == pdTRUE): one pop;
\* the pop that finds the queue empty ends audio_playback_queue_stop
StopPurge(t) ==
    /\ pc[t] = "stop_purge"
    /\ IF audio_playback_queue # <<>>
       THEN /\ audio_playback_queue' = Tail(audio_playback_queue)
            /\ event' = NoEvent
            /\ UNCHANGED pc
       ELSE /\ pc' = [pc EXCEPT ![t] = AfterStop(t)]
            /\ event' = [kind |-> "stop_return", t |-> t, early |-> FALSE]
            /\ UNCHANGED audio_playback_queue
    /\ UNCHANGED <<current_state, state_mutex, new_state, old_state, capVars,
                   lossVars, boot, metricVars, queue_playback_active,
                   queue_playback_task_handle, tx_enabled, wpc, chunk, sfx,
                   reached, wlog>>

\* a chunk that was accepted before a start request, from that request on
MarkStale(c) == [c EXCEPT !.stale = (c.length > 0)]

\* if (queue_playback_active) return;
StartCheck(t) ==
    /\ pc[t] = "start_chk"
    /\ sfx' = [sfx EXCEPT ![t] = Append(@, "start")]
    /\ IF queue_playback_active
       THEN /\ pc' = [pc EXCEPT ![t] = "unlock"]
            /\ UNCHANGED <<audio_playback_queue, chunk, reached>>
       ELSE /\ pc' = [pc EXCEPT ![t] = "start_purge"]
            /\ audio_playback_queue' =
                 [i \in 1..Len(audio_playback_queue) |->
                    MarkStale(audio_playback_queue[i])]
            /\ chunk' = [w \in Workers |-> MarkStale(chunk[w])]
            /\ reached' = FALSE
    /\ event' = NoEvent
    /\ UNCHANGED <<current_state, state_mutex, new_state, old_state, capVars,
                   lossVars, boot, metricVars, queue_playback_active,
                   queue_playback_task_handle, tx_enabled, wpc, wlog>>

\* the slot of the task that xTaskCreatePinnedToCore creates
FreeWorker ==
    CHOOSE w \in Workers :
        wpc[w] = "none" /\ \A v \in Workers : wpc[v] = "none" => w <= v

\* whether the purge of audio_playback_queue_start has emptied the queue
StartPurgeDone == audio_playback_queue = <<>>

\* the purge loop of audio_playback_queue_start (one pop), and after the pop
\* that finds the queue empty: queue_playback_active = true; xTaskCreate.
\* xQueueReceive on a NULL handle fails configASSERT(pxQueue) or, in a build
\* without assertions, reads through the NULL pointer: the system stops.
StartPurge(t) ==
    /\ pc[t] = "start_purge"
    /\ IF ~QueueCreated
       THEN /\ pc' = [pc EXCEPT ![t] = "panic"]
            /\ boot' = "panic"
            /\ event' = [kind |-> "panic", t |-> t]
            /\ UNCHANGED <<audio_playback_queue, queue_playback_active,
                           queue_playback_task_handle, wpc, wlog>>
       ELSE /\ IF ~StartPurgeDone
               THEN /\ audio_playback_queue' = Tail(audio_playback_queue)
                    /\ UNCHANGED <<pc, queue_playback_active,
                                   queue_playback_task_handle, wpc, wlog>>
               ELSE /\ \E w \in Workers : wpc[w] = "none"
                    /\ queue_playback_active' = TRUE
                    /\ queue_playback_task_handle' = FreeWorker
                    /\ wpc' = [wpc EXCEPT ![FreeWorker] = "init"]
                    /\ wlog' = [wlog EXCEPT ![FreeWorker] = NoLog]
                    /\ pc' = [pc EXCEPT ![t] = "unlock"]
                    /\ UNCHANGED audio_playback_queue
            /\ event' = NoEvent
            /\ UNCHANGED boot
    /\ UNCHANGED <<current_state, state_mutex, new_state, old_state, capVars,
                   lossVars, metricVars, tx_enabled, chunk, sfx, reached>>

(***************************************************************************)
(* set_voice_state(new_state[t]) called by task t.                         *)
(***************************************************************************)
\* (variant: set_voice_state without its guard)
StateChanges_unguarded(t) == TRUE

\* the guard of set_voice_state: whether the request changes the state
StateChanges(t) == current_state # new_state[t]

\* (variant: an interrupt does not stop the playback)
SideEffect_noStopOnInterrupt(t) ==
    CASE new_state[t] = STATE_IDLE -> "stop_chk"
      [] new_state[t] = STATE_USER_SPEAKING -> "unlock"
      [] new_state[t] = STATE_AI_SPEAKING -> "start_chk"

\* the switch of set_voice_state: where the call continues after the assignment
SideEffect(t) ==
    CASE new_state[t] = STATE_IDLE -> "stop_chk"
      [] new_state[t] = STATE_USER_SPEAKING ->
            IF current_state = STATE_AI_SPEAKING THEN "stop_chk" ELSE "unlock"
      [] new_state[t] = STATE_AI_SPEAKING -> "start_chk"

\* (variant: the lock is taken whoever holds it)
SemaphoreFree_unchecked == TRUE

\* xSemaphoreTake(state_mutex, portMAX_DELAY) returns once no task holds it
SemaphoreFree == state_mutex = FREE

\* xSemaphoreTake; if (current_state != new_state) { old_state = ...; current_state = ... }
SvsTake(t) ==
    /\ pc[t] = "lock"
    /\ SemaphoreFree
    /\ state_mutex' = t
    /\ old_state' = [old_state EXCEPT ![t] = current_state]
    /\ sfx' = [sfx EXCEPT ![t] = <<>>]
    /\ IF StateChanges(t)
       THEN /\ current_state' = new_state[t]
            /\ pc' = [pc EXCEPT ![t] = SideEffect(t)]
       ELSE /\ pc' = [pc EXCEPT ![t] = "unlock"]
            /\ UNCHANGED current_state
    /\ event' = NoEvent
    /\ UNCHANGED <<new_state, capVars, lossVars, boot, metricVars, playVars, reached,
                   wlog>>

\* udp_send_interrupt_signal
SendInterrupt(t) ==
    /\ pc[t] = "intr"
    /\ sfx' = [sfx EXCEPT ![t] = Append(@, "intr")]
    /\ pc' = [pc EXCEPT ![t] = "unlock"]
    /\ event' = [kind |-> "interrupt", type |-> UDP_MSG_INTERRUPT, t |-> t]
    /\ UNCHANGED <<current_state, state_mutex, new_state, old_state, capVars,
                   lossVars, boot, metricVars, playVars, reached, wlog>>

\* xSemaphoreGive, and the return to the caller (the receive task has no
\* further use of the call's locals; the capture loop has, up to its send)
SvsGive(t) ==
    /\ pc[t] = "unlock"
    /\ state_mutex' = FREE
    /\ pc' = [pc EXCEPT ![t] = IF t = "cap" THEN "send" ELSE "recv"]
    /\ sfx' = [sfx EXCEPT ![t] = <<>>]
    /\ IF t = "cap"
       THEN UNCHANGED <<new_state, old_state>>
       ELSE /\ new_state' = [new_state EXCEPT ![t] = STATE_IDLE]
            /\ old_state' = [old_state EXCEPT ![t] = STATE_IDLE]
    /\ event' = NoEvent
    /\ UNCHANGED <<current_state, capVars, lossVars, boot, metricVars, playVars,
                   reached, wlog>>

(***************************************************************************)
(* voice_assistant_task: the capture loop.                                 *)
(*   "capture"  at the top of the loop (blocking I2S read)                 *)
(*   "lock" ... "unlock"  inside set_voice_state                           *)
(*   "send"     after the state decision, before the code that follows it  *)
(* Time: silence_start = -1 stands for the C value 0 (timer off); a value  *)
(* n >= 0 is get_time_ms() - silence_start, which grows with every         *)
(* iteration and is kept up to SILENCE_DURATION_MS + 1 (every larger value *)
(* compares the same way).                                                 *)
(***************************************************************************)
\* get_time_ms() - silence_start after d more milliseconds
Elapsed(d) ==
    IF silence_start = -1 THEN -1
    ELSE Min(silence_start + d, SILENCE_DURATION_MS + 1)

\* the time since the first of the consecutive quiet evaluations, d ms later
HeldAfter(d) ==
    IF held = -1 THEN -1
    ELSE Min(held + d, SILENCE_DURATION_MS + 1)

\* (variant: loudness at the threshold counts as speech)
IsSpeech_atThreshold(r) == r >= RMS_THRESHOLD_NORMAL

\* rms > RMS_THRESHOLD_NORMAL
IsSpeech(r) == r > RMS_THRESHOLD_NORMAL

\* rms > RMS_THRESHOLD_INTERRUPT
IsInterrupt(r) == r > RMS_THRESHOLD_INTERRUPT

\* rms < AUDIO_RMS_STOP_THRESHOLD
IsSilence(r) == r < AUDIO_RMS_STOP_THRESHOLD

\* get_time_ms() - silence_start > SILENCE_DURATION_MS
SilenceTimedOut(age) == age > SILENCE_DURATION_MS

(***************************************************************************)
(* audio_calculate_rms.  The uint64_t sum is the pair <<high, low>> of its  *)
(* digits in base LimbBase; every other quantity is a 32-bit one.          *)
(***************************************************************************)
INT16_MIN == -32768
INT16_MAX == 32767
INT32_MAX == 2147483647
LimbBase == 65536

Larger(a, b) == IF a > b THEN a ELSE b

\* sum += (sample * sample)
AddSquare(sum, sample) ==
    LET sq == sample * sample
        lo == sum[2] + (sq % LimbBase)
    IN  <<sum[1] + (sq \div LimbBase) + (lo \div LimbBase), lo % LimbBase>>

\* for (i = 0; i < sample_count; i++) sum += ...: the sum after i samples
RECURSIVE SumSquares(_, _)
SumSquares(data, i) ==
    IF i = 0 THEN <<0, 0>> ELSE AddSquare(SumSquares(data, i - 1), data[i])

\* uint32_t mean = sum / sample_count
MeanOf(sum, sample_count) ==
    (sum[1] \div sample_count) * LimbBase
        + (((sum[1] % sample_count) * LimbBase + sum[2]) \div sample_count)

\* (variant: the loop body never runs)
Continues_never(y, x) == FALSE

\* while (y < x)
Continues(y, x) == y < x

\* x = y; y = (x + mean / x) / 2; until y >= x: the x returned
RECURSIVE Babylonian(_, _, _)
Babylonian(x, y, mean) ==
    IF Continues(y, x)
    THEN Babylonian(y, (y + (mean \div y)) \div 2, mean)
    ELSE x

\* the largest value of x + mean / x the loop computes
RECURSIVE BabylonianPeak(_, _, _)
BabylonianPeak(x, y, mean) ==
    IF Continues(y, x)
    THEN Larger(y + (mean \div y),
                BabylonianPeak(y, (y + (mean \div y)) \div 2, mean))
    ELSE 0

\* uint32_t audio_calculate_rms(int16_t *samples, size_t sample_count);
\* samples is [null, data]: whether the pointer is NULL, and what it points to
audio_calculate_rms(samples, sample_count) ==
    IF samples.null \/ sample_count = 0 THEN 0
    ELSE LET mean == MeanOf(SumSquares(samples.data, sample_count), sample_count)
         IN  IF mean = 0 THEN 0
             ELSE Babylonian(mean, (mean + 1) \div 2, mean)

\* the largest 32-bit value the call computes on its way
RECURSIVE LargestSquare(_, _)
LargestSquare(data, i) ==
    IF i = 0 THEN 0 ELSE Larger(data[i] * data[i], LargestSquare(data, i - 1))

Widest(samples, sample_count) ==
    IF samples.null \/ sample_count = 0 THEN 0
    ELSE LET mean == MeanOf(SumSquares(samples.data, sample_count), sample_count)
         IN  Larger(LargestSquare(samples.data, sample_count),
                    IF mean = 0 THEN 0
                    ELSE Larger(mean + 1,
                                BabylonianPeak(mean, (mean + 1) \div 2, mean)))

\* uint32_t rms = audio_calculate_rms(samples, sample_count) on a block of B
RmsCall(B) ==
    /\ pc["cap"] = "capture"
    /\ \E b \in B :
         \E n \in (IF b.null THEN {0, 1} ELSE {0, Len(b.data)}) :
            event' = [kind |-> "rms", samples |-> b, sample_count |-> n,
                      rms |-> audio_calculate_rms(b, n),
                      sum |-> IF b.null THEN <<0, 0>> ELSE SumSquares(b.data, n),
                      widest |-> Widest(b, n)]
    /\ UNCHANGED <<mainVars, capVars, lossVars, boot, metricVars, playVars,
                   sfx, reached, wlog>>

\* audio_capture_chunk_to_buffer failed: vTaskDelay(40 ms); continue.
\* T: the milliseconds that can pass between two readings of get_time_ms
CaptureFail(T) ==
    /\ CaptureTaskCreated
    /\ pc["cap"] = "capture"
    /\ \E d \in T : /\ silence_start' = Elapsed(d)
                     /\ held' = HeldAfter(d)
    /\ event' = [kind |-> "capture_failed"]
    /\ UNCHANGED <<mainVars, sequence, branch, rms, lossVars, boot, metricVars,
                   playVars, sfx, reached, wlog>>

\* audio_capture_chunk_to_buffer returned ESP_OK with bytes_captured bytes:
\* the rms computed, get_voice_state() and the switch on the snapshot, up to
\* the call of set_voice_state or of udp_send_audio_packet.
\* R: the loudness values the block can have
EvaluateBlock(R, T, bytes_captured) ==
    /\ CaptureTaskCreated
    /\ pc["cap"] = "capture"
    /\ state_mutex = FREE
    /\ \E r \in R, d \in T :
         LET age == Elapsed(d)
             quiet == current_state = STATE_USER_SPEAKING /\ IsSilence(r)
             eval(to) == [kind |-> "eval", state |-> current_state, rms |-> r,
                          held |-> held', to |-> to, bytes |-> bytes_captured]
             call(st, br) ==
                 /\ event' = eval(st)
                 /\ pc' = [pc EXCEPT !["cap"] = "lock"]
                 /\ new_state' = [new_state EXCEPT !["cap"] = st]
                 /\ branch' = br
                 /\ rms' = r
                 /\ silence_start' = age
             stream(timer) ==
                 /\ sequence < MaxSeq
                 /\ event' = eval(current_state)
                 /\ pc' = [pc EXCEPT !["cap"] = "send"]
                 /\ branch' = "user"
                 /\ rms' = r
                 /\ silence_start' = timer
                 /\ UNCHANGED new_state
             skip ==
                 /\ event' = eval(current_state)
                 /\ UNCHANGED <<pc, new_state, branch, rms>>
                 /\ silence_start' = age
         IN  /\ held' = (IF ~quiet THEN -1 ELSE IF held = -1 THEN 0 ELSE HeldAfter(d))
             /\ CASE current_state = STATE_IDLE ->
                       IF IsSpeech(r) THEN call(STATE_USER_SPEAKING, "idle")
                       ELSE skip
                  [] current_state = STATE_USER_SPEAKING ->
                       IF IsSilence(r)
                       THEN IF silence_start = -1 THEN stream(0)
                            ELSE IF SilenceTimedOut(age)
                                 THEN call(STATE_IDLE, "silence")
                                 ELSE stream(age)
                       ELSE stream(-1)
                  [] current_state = STATE_AI_SPEAKING ->
                       IF IsInterrupt(r) THEN call(STATE_USER_SPEAKING, "ai")
                       ELSE skip
    /\ UNCHANGED <<current_state, state_mutex, old_state, sequence, lossVars, boot,
                   metricVars, playVars, sfx, reached, wlog>>

\* one full block captured and downsampled
CaptureBlock(R, T) == EvaluateBlock(R, T, AUDIO_CHUNK_SIZE_OUTPUT)

\* i2s_channel_read returned ESP_OK with fewer bytes than asked for:
\* `return ret;` hands that ESP_OK to the caller
ShortReadReturn == "ESP_OK"

\* a short read: the caller's bytes_captured is still 0, so the loudness is
\* that of no samples
CaptureShort(T) ==
    IF ShortReadReturn = "ESP_OK"
    THEN EvaluateBlock({audio_calculate_rms([null |-> FALSE, data |-> << >>], 0)},
                       T, 0)
    ELSE CaptureFail(T)

\* whether the set_voice_state call of this iteration interrupted the AI
Interrupted ==
    branch \in {"idle", "ai"} /\ old_state["cap"] = STATE_AI_SPEAKING

\* (variant: the counter is not reset when a stream starts)
SendSeq_noReset == sequence

\* the sequence number udp_send_audio_packet is called with in each branch
SendSeq == IF branch \in {"idle", "ai"} THEN 0 ELSE sequence

\* (variant: the counter stays where it is)
NextSequence_stuck(s) == s

\* sequence++
NextSequence(s) == s + 1

\* the code after the state decision of each switch case
CaptureSend ==
    /\ pc["cap"] = "send"
    /\ IF branch = "silence"
       THEN /\ event' = NoEvent
            /\ UNCHANGED sequence
       ELSE /\ event' = [kind |-> "send", type |-> UDP_MSG_AUDIO_DATA,
                         seq |-> SendSeq, state |-> current_state,
                         interrupt |-> Interrupted, branch |-> branch]
            /\ sequence' = NextSequence(SendSeq)
    /\ silence_start' = IF branch \in {"idle", "silence"} THEN -1 ELSE silence_start
    /\ pc' = [pc EXCEPT !["cap"] = "capture"]
    /\ branch' = "none"
    /\ rms' = 0
    /\ new_state' = [new_state EXCEPT !["cap"] = STATE_IDLE]
    /\ old_state' = [old_state EXCEPT !["cap"] = STATE_IDLE]
    /\ UNCHANGED <<current_state, state_mutex, lossVars, boot, metricVars, playVars,
                   sfx, reached, wlog, held>>

(***************************************************************************)
(* udp_receive_task: one datagram per step.  A datagram is its length in   *)
(* bytes, its first byte and, when it has one, its 32-bit sequence field.  *)
(***************************************************************************)
Datagram(len, type, seq) == [len |-> len, type |-> type, seq |-> seq]

\* the loss tracker: <<last_received_seq, packets_lost>> after a block with seq
LossAfter_countsFirst(last, lost, seq) ==
    IF seq > 0 /\ seq # (last + 1) % SeqMod
    THEN <<seq, (lost + ((seq - last - 1) % SeqMod)) % SeqMod>>
    ELSE <<seq, lost>>

LossAfter(last, lost, seq) ==
    IF seq > 0 /\ last > 0 /\ seq # (last + 1) % SeqMod
    THEN <<seq, (lost + ((seq - last - 1) % SeqMod)) % SeqMod>>
    ELSE <<seq, lost>>

\* (variant: an empty payload is not recognised)
IsEmptyPayload_never(audio_len) == FALSE

\* if (audio_len == 0) ... break;
IsEmptyPayload(audio_len) == audio_len = 0

\* (variant: any datagram of an audio type is read as a block)
HasSequenceField_any(len) == len >= 1

\* if (len >= 5): the datagram holds the type byte and the sequence field
HasSequenceField(len) == len >= AUDIO_HEADER_BYTES

\* a datagram the switch does nothing with
Ignored(m) == [kind |-> "ignored", type |-> m.type, len |-> m.len]

\* case UDP_MSG_PLAY_AUDIO / UDP_MSG_PLAY_AUDIO_LAST
RxAudio(m, is_last) ==
    LET audio_len == m.len - AUDIO_HEADER_BYTES
        loss == LossAfter(last_received_seq, packets_lost, m.seq)
        heard(queued) ==
            [kind |-> "audio", seq |-> m.seq, payload |-> audio_len,
             is_last |-> is_last, tracked |-> loss, accepted |-> queued]
    IN  IF HasSequenceField(m.len)
        THEN IF IsEmptyPayload(audio_len)
             THEN /\ last_received_seq' = loss[1]
                  /\ packets_lost' = loss[2]
                  /\ event' = heard(FALSE)
                  /\ UNCHANGED <<audio_playback_queue, reached>>
             ELSE /\ audio_playback_queue_push(Min(audio_len, MAX_CHUNK_BYTES),
                                               m.seq, is_last)
                  /\ last_received_seq' = IF is_last THEN 0 ELSE loss[1]
                  /\ packets_lost' = IF is_last THEN 0 ELSE loss[2]
                  /\ event' = heard(Len(audio_playback_queue') > QueueDepth)
        ELSE /\ event' = Ignored(m)
             /\ UNCHANGED <<lossVars, audio_playback_queue, reached>>

\* recvfrom returned the datagram m: the switch on its first byte; a state
\* message is handed on only `if (state_change_callback)`
RxDatagram(m) ==
    /\ ReceiveTaskCreated
    /\ pc["rx"] = "recv"
    /\ CASE m.type = UDP_MSG_PLAY_AUDIO ->
              RxAudio(m, FALSE) /\ UNCHANGED <<pc, new_state>>
         [] m.type = UDP_MSG_PLAY_AUDIO_LAST ->
              RxAudio(m, TRUE) /\ UNCHANGED <<pc, new_state>>
         [] m.type = UDP_MSG_STATE_IDLE /\ CallbackRegistered ->
              /\ new_state' = [new_state EXCEPT !["rx"] = STATE_IDLE]
              /\ pc' = [pc EXCEPT !["rx"] = "lock"]
              /\ event' = NoEvent
              /\ UNCHANGED <<lossVars, audio_playback_queue, reached>>
         [] m.type = UDP_MSG_STATE_AI_SPEAKING /\ CallbackRegistered ->
              /\ new_state' = [new_state EXCEPT !["rx"] = STATE_AI_SPEAKING]
              /\ pc' = [pc EXCEPT !["rx"] = "lock"]
              /\ event' = NoEvent
              /\ UNCHANGED <<lossVars, audio_playback_queue, reached>>
         [] OTHER ->
              /\ event' = Ignored(m)
              /\ UNCHANGED <<pc, new_state, lossVars, audio_playback_queue, reached>>
    /\ UNCHANGED <<current_state, state_mutex, old_state, capVars, metricVars,
                   queue_playback_active, queue_playback_task_handle, tx_enabled,
                   wpc, chunk, sfx, wlog, boot>>

(***************************************************************************)
(* The system: the state after app_main, and the steps of all tasks.       *)
(***************************************************************************)
Statics ==
    /\ current_state = STATE_IDLE
    /\ state_mutex = FREE
    /\ pc = [t \in Tasks |-> IF t = "cap" THEN "capture" ELSE "recv"]
    /\ new_state = [t \in Tasks |-> STATE_IDLE]
    /\ old_state = [t \in Tasks |-> STATE_IDLE]
    /\ silence_start = -1
    /\ held = -1
    /\ sequence = 0
    /\ branch = "none"
    /\ rms = 0
    /\ audio_playback_queue = <<>>
    /\ queue_playback_active = FALSE
    /\ queue_playback_task_handle = NULL
    /\ tx_enabled = FALSE
    /\ total_chunks_played = 0
    /\ queue_underrun_count = 0
    /\ wpc = [w \in Workers |-> "none"]
    /\ chunk = [w \in Workers |-> NoChunk]
    /\ last_received_seq = 0
    /\ packets_lost = 0
    /\ sfx = [t \in Tasks |-> <<>>]
    /\ reached = FALSE
    /\ wlog = [w \in Workers |-> NoLog]
    /\ event = NoEvent

\* the state after app_main: every start-up call has succeeded
Init == Statics /\ boot = "ready"

\* the state in which app_main calls udp_client_init
InitBoot == Statics /\ boot = "udp_init"

\* a start-up call of app_main: it succeeds and app_main goes on to the next,
\* or it fails and app_main returns
AppMainCall(at, next, failed) ==
    /\ boot = at
    /\ boot' \in {next, failed}
    /\ event' = NoEvent
    /\ UNCHANGED <<mainVars, capVars, lossVars, metricVars, playVars, sfx,
                   reached, wlog>>

\* ret = udp_client_init(); if (ret != ESP_OK) return;
AppMainUdpInit == AppMainCall("udp_init", "register", "no_udp")

\* udp_register_state_callback(set_voice_state)
AppMainRegister == AppMainCall("register", "audio_init", "audio_init")

\* ret = audio_init(); if (ret != ESP_OK) return;
AppMainAudioInit == AppMainCall("audio_init", "queue_init", "no_audio")

\* ret = audio_playback_queue_init(); if (ret != ESP_OK) return;
AppMainQueueInit == AppMainCall("queue_init", "create_task", "no_queue")

\* xTaskCreatePinnedToCore(voice_assistant_task, ...)
AppMainCreateTask == AppMainCall("create_task", "ready", "ready")

\* the datagrams of the peer: full audio blocks numbered 0, the two state
\* messages that are handled and one message of a type that is not
AudioDatagrams ==
    {Datagram(AUDIO_HEADER_BYTES + MAX_CHUNK_BYTES, UDP_MSG_PLAY_AUDIO, 0),
     Datagram(AUDIO_HEADER_BYTES + MAX_CHUNK_BYTES, UDP_MSG_PLAY_AUDIO_LAST, 0)}

StateDatagrams ==
    {Datagram(1, UDP_MSG_STATE_IDLE, 0),
     Datagram(1, UDP_MSG_STATE_AI_SPEAKING, 0),
     Datagram(1, UDP_MSG_STATE_USER_SPEAKING, 0)}

Datagrams == AudioDatagrams \cup StateDatagrams

\* a loudness above the speech and interrupt thresholds and below the stop
\* threshold: with it the capture loop can request every transition it has
SpeechRms == {RMS_THRESHOLD_INTERRUPT + 1}

\* the loudness values at and next to the three thresholds
RmsInputs ==
    {RMS_THRESHOLD_NORMAL - 1, RMS_THRESHOLD_NORMAL, RMS_THRESHOLD_NORMAL + 1,
     RMS_THRESHOLD_INTERRUPT, RMS_THRESHOLD_INTERRUPT + 1,
     AUDIO_RMS_STOP_THRESHOLD - 1, AUDIO_RMS_STOP_THRESHOLD}

\* the time between two iterations of the capture loop
LongSteps == {SILENCE_DURATION_MS + 1}
TimeSteps == {1, SILENCE_DURATION_MS, SILENCE_DURATION_MS + 1}

\* the steps of a worker from its creation to its pre-buffer wait, and its exit
WorkerLifecycle(w) ==
    \/ TaskInit(w)
    \/ TaskPrebuffer(w)
    \/ TaskLoopCheck(w)
    \/ TaskFlush(w)
    \/ TaskDisable(w)

\* the steps of a worker that plays
WorkerPlay(w) ==
    \/ TaskReceive(w)
    \/ TaskTimeout(w)
    \/ TaskWrite(w)
    \/ TaskDrain(w)

\* the steps of set_voice_state for the requests the receive task makes
\* (STATE_IDLE and STATE_AI_SPEAKING)
SetVoiceStateRx ==
    \/ SvsTake("rx")
    \/ StopCheck("rx")
    \/ StopWait("rx")
    \/ StopPurge("rx")
    \/ StartCheck("rx")
    \/ StartPurge("rx")
    \/ SvsGive("rx")

\* the steps of set_voice_state for the requests the capture loop makes
\* (STATE_USER_SPEAKING and STATE_IDLE)
SetVoiceStateCap ==
    \/ SvsTake("cap")
    \/ StopCheck("cap")
    \/ StopWait("cap")
    \/ StopPurge("cap")
    \/ SendInterrupt("cap")
    \/ SvsGive("cap")

\* the whole system, with one loudness for the captured blocks
Next ==
    \/ CaptureFail(LongSteps)
    \/ CaptureBlock(SpeechRms, LongSteps)
    \/ CaptureSend
    \/ \E m \in Datagrams : RxDatagram(m)
    \/ SetVoiceStateRx
    \/ SetVoiceStateCap
    \/ \E w \in Workers : WorkerLifecycle(w) \/ WorkerPlay(w)

Spec == Init /\ [][Next]_vars

\* the playback subsystem driven by the receive task alone (the capture task
\* blocked in its I2S read)
NextPlayback ==
    \/ \E m \in Datagrams : RxDatagram(m)
    \/ SetVoiceStateRx
    \/ \E w \in Workers : WorkerLifecycle(w) \/ WorkerPlay(w)

SpecPlayback == Init /\ [][NextPlayback]_vars

\* datagrams the receive task has no case for, and audio datagrams too short
\* to hold the sequence field
IgnoredDatagrams ==
    {Datagram(1, ty, 0) :
        ty \in {UDP_MSG_STATE_USER_SPEAKING, UDP_MSG_AUDIO_DATA, UDP_MSG_INTERRUPT,
                UDP_MSG_PLAYBACK_COMPLETE, MaxByte}}
    \cup {Datagram(n, ty, 0) :
            n \in {1, AUDIO_HEADER_BYTES - 1},
            ty \in {UDP_MSG_PLAY_AUDIO, UDP_MSG_PLAY_AUDIO_LAST}}

\* the playback subsystem with a peer that also sends such datagrams
NextFrames ==
    \/ \E m \in Datagrams \cup IgnoredDatagrams : RxDatagram(m)
    \/ SetVoiceStateRx
    \/ \E w \in Workers : WorkerLifecycle(w) \/ WorkerPlay(w)

SpecFrames == Init /\ [][NextFrames]_vars

\* the same with fair scheduling: every task that can take a step eventually
\* takes it (the peer need not send anything)
FairPlayback ==
    /\ WF_vars(SetVoiceStateRx)
    /\ \A w \in Workers : WF_vars(WorkerLifecycle(w) \/ WorkerPlay(w))

SpecPlaybackFair == Init /\ [][NextPlayback]_vars /\ FairPlayback

\* the VoiceState machine: the capture loop with every loudness class and
\* the receive task with a peer that sends state messages only
NextVoice ==
    \/ CaptureFail(TimeSteps)
    \/ CaptureBlock(RmsInputs, TimeSteps)
    \/ CaptureSend
    \/ \E m \in StateDatagrams : RxDatagram(m)
    \/ SetVoiceStateRx
    \/ SetVoiceStateCap
    \/ \E w \in Workers : WorkerLifecycle(w)

SpecVoice == Init /\ [][NextVoice]_vars

\* the same with an I2S driver that can also deliver fewer bytes than asked for
NextCapture ==
    \/ NextVoice
    \/ CaptureShort(TimeSteps)

SpecCapture == Init /\ [][NextCapture]_vars

\* audio datagrams of every length class (too short for a header, empty
\* payload, one byte, full block, one byte too many), numbered 0 and 1
SizedAudio ==
    {Datagram(n, ty, q) :
        n \in {AUDIO_HEADER_BYTES - 1, AUDIO_HEADER_BYTES, AUDIO_HEADER_BYTES + 1,
                AUDIO_HEADER_BYTES + MAX_CHUNK_BYTES,
                AUDIO_HEADER_BYTES + MAX_CHUNK_BYTES + 1},
        ty \in {UDP_MSG_PLAY_AUDIO, UDP_MSG_PLAY_AUDIO_LAST},
        q \in {0, 1}}

\* the producer side of the queue alone: the receive task handling audio
\* datagrams while no playback session runs (nothing pops)
NextQueue == \E m \in SizedAudio : RxDatagram(m)

SpecQueue == Init /\ [][NextQueue]_vars

\* the peer numbers the blocks of an utterance 1, 2, ...
UtteranceSeqs == 1..MaxUtterance

\* full audio blocks numbered within an utterance
UtteranceAudio ==
    {Datagram(AUDIO_HEADER_BYTES + MAX_CHUNK_BYTES, ty, q) :
        ty \in {UDP_MSG_PLAY_AUDIO, UDP_MSG_PLAY_AUDIO_LAST}, q \in UtteranceSeqs}

\* the playback subsystem fed with utterances whose blocks arrive in order
\* and complete (each block carries the number after the last one received)
NextFifo ==
    \/ \E m \in UtteranceAudio :
          /\ m.seq = last_received_seq + 1
          /\ RxDatagram(m)
    \/ \E m \in StateDatagrams : RxDatagram(m)
    \/ SetVoiceStateRx
    \/ \E w \in Workers : WorkerLifecycle(w) \/ WorkerPlay(w)

SpecFifo == Init /\ [][NextFifo]_vars

\* the sequence numbers the peer puts on its audio blocks: 0 (first block of
\* an utterance) and a run with one block missing
LossSeqs == {0, 5, 6, 8, 9}

\* audio datagrams, with a full block or with no payload, numbered from LossSeqs
NumberedAudio ==
    {Datagram(n, ty, q) :
        n \in {AUDIO_HEADER_BYTES, AUDIO_HEADER_BYTES + MAX_CHUNK_BYTES},
        ty \in {UDP_MSG_PLAY_AUDIO, UDP_MSG_PLAY_AUDIO_LAST},
        q \in LossSeqs}

\* the loss tracker alone: the receive task handling numbered audio datagrams
NextLoss == \E m \in NumberedAudio : RxDatagram(m)

SpecLoss == Init /\ [][NextLoss]_vars

\* the sample values: both ends of int16_t, zero and small values of both signs
SampleValues == {INT16_MIN, -3, 0, 4, INT16_MAX}

\* the blocks of at most MaxSamples samples, and the NULL pointer
SampleBlocks ==
    {[null |-> FALSE, data |-> d] :
        d \in UNION {[1..n -> SampleValues] : n \in 0..MaxSamples}}
    \cup {[null |-> TRUE, data |-> << >>]}

\* audio_calculate_rms alone, applied to every block
NextRms == RmsCall(SampleBlocks)

SpecRms == Init /\ [][NextRms]_vars

\* (variant: the odd samples are kept)
SourceIndex_odd(i) == i * 2 + 1

\* output_16[i] = input_16[i * 2]: the index read for output sample i
SourceIndex(i) == i * 2

\* for (i = 0; i < input_samples / 2; i++) output_16[i] = input_16[i * 2];
\* input and output are the buffers with sample 0 at position 1
Downsample(input) ==
    [i \in 1..(Len(input) \div 2) |-> input[SourceIndex(i - 1) + 1]]

\* a captured block resampled into the caller's buffer
Resample(B) ==
    /\ pc["cap"] = "capture"
    /\ \E b \in B :
         event' = [kind |-> "resample", input |-> b, output |-> Downsample(b)]
    /\ UNCHANGED <<mainVars, capVars, lossVars, boot, metricVars, playVars,
                   sfx, reached, wlog>>

\* the captured blocks: twice BlockSamples samples each
CaptureValues == {INT16_MIN, 0, 4, INT16_MAX}
CaptureBlocks == [1..(2 * BlockSamples) -> CaptureValues]

NextResample == Resample(CaptureBlocks)

SpecResample == Init /\ [][NextResample]_vars

\* playback sessions with numbered blocks: a stream with a gap (5, then 8),
\* its final block, and the two state messages
SessionDatagrams ==
    {Datagram(AUDIO_HEADER_BYTES + MAX_CHUNK_BYTES, UDP_MSG_PLAY_AUDIO, q) :
        q \in {5, 8}}
    \cup {Datagram(AUDIO_HEADER_BYTES + MAX_CHUNK_BYTES, UDP_MSG_PLAY_AUDIO_LAST, 9),
          Datagram(1, UDP_MSG_STATE_IDLE, 0),
          Datagram(1, UDP_MSG_STATE_AI_SPEAKING, 0)}

\* the peer numbers the blocks of a stream upwards: a block arrives only with
\* a sequence number above the last one received
NextSession ==
    \/ \E m \in SessionDatagrams :
          /\ m.len >= AUDIO_HEADER_BYTES => m.seq > last_received_seq
          /\ RxDatagram(m)
    \/ SetVoiceStateRx
    \/ \E w \in Workers : WorkerLifecycle(w) \/ WorkerPlay(w)

SpecSession == Init /\ [][NextSession]_vars

\* the capture loop alone: the peer sends nothing, so every change of
\* current_state is one the loop requested
NextAlone ==
    \/ CaptureFail(TimeSteps)
    \/ CaptureBlock(RmsInputs, TimeSteps)
    \/ CaptureSend
    \/ SvsTake("cap")
    \/ StopCheck("cap")
    \/ SvsGive("cap")

SpecAlone == Init /\ [][NextAlone]_vars

\* the start-up: app_main, and the receive task with a peer that sends state
\* messages from the moment the task exists
NextBoot ==
    \/ AppMainUdpInit
    \/ AppMainRegister
    \/ AppMainAudioInit
    \/ AppMainQueueInit
    \/ AppMainCreateTask
    \/ \E m \in StateDatagrams : RxDatagram(m)
    \/ SetVoiceStateRx
    \/ \E w \in Workers : WorkerLifecycle(w)

SpecBoot == InitBoot /\ [][NextBoot]_vars

\* the tracker after a run of sequence numbers, from <<last, lost>> = t
RECURSIVE LossRun(_, _)
LossRun(t, seqs) ==
    IF seqs = <<>> THEN t
    ELSE LossRun(LossAfter(t[1], t[2], Head(seqs)), Tail(seqs))

(***************************************************************************)
(* Properties.                                                             *)
(***************************************************************************)
\* the positions of a task inside audio_playback_queue_stop
StopPcs == {"stop_chk", "stop_wait", "stop_purge"}

\* the positions of a task between xSemaphoreTake and xSemaphoreGive
LockedPcs == StopPcs \cup {"start_chk", "start_purge", "intr", "unlock"}

\* C1: whenever audio_playback_queue_stop returns, no playback worker is
\* still running and the output device is disabled, also when the worker
\* had begun to exit on its own after a final block.
C1_StopReturnsQuiescent ==
    event.kind = "stop_return" =>
        (\A w \in Workers : wpc[w] = "none") /\ ~tx_enabled

\* C2: a block accepted into the queue before a start request is never
\* written to the output device during the session that start opens.
C2_NoStaleBlockPlayed ==
    (event.kind = "write" /\ event.active) => ~event.stale

\* C3: a transition from STATE_AI_SPEAKING to STATE_USER_SPEAKING runs, with
\* state_mutex held, audio_playback_queue_stop and then exactly one interrupt
\* signal (one byte 0x40); the capture loop then sends the triggering block
\* with sequence 0.
C3_InterruptTransition ==
    /\ \A t \in Tasks : sfx[t] # <<>> => state_mutex = t
    /\ \A t \in Tasks :
         ( /\ pc[t] = "unlock"
           /\ old_state[t] = STATE_AI_SPEAKING
           /\ new_state[t] = STATE_USER_SPEAKING )
         => /\ sfx[t] = <<"stop", "intr">>
            /\ state_mutex = t
            /\ current_state = STATE_USER_SPEAKING
    /\ event.kind = "interrupt" =>
         /\ event.type = 64
         /\ state_mutex = event.t
         /\ sfx[event.t] = <<"stop", "intr">>
    /\ (pc["cap"] = "send" /\ Interrupted) => (branch # "silence" /\ SendSeq = 0)
    /\ (event.kind = "send" /\ event.interrupt) => (event.seq = 0 /\ sequence = 1)

\* C3 happens: the block that interrupted the AI has been sent
C3_Witness ==
    event.kind = "send" /\ event.interrupt /\ event.seq = 0

\* C4: while current_state is STATE_AI_SPEAKING the capture loop sends no
\* audio block other than one that caused the interrupt transition, however
\* the receive task's state changes interleave with the loop.
C4_NoSendWhileAi ==
    (event.kind = "send" /\ event.state = STATE_AI_SPEAKING) => event.interrupt

\* C5: a request for the state current_state already has changes nothing and
\* runs no side effect (no start, no stop, no interrupt); a request that
\* changes the state runs the side effect of its transition exactly once.
C5_SameStateNoOp ==
    \A t \in Tasks :
        pc[t] = "unlock" =>
            /\ current_state = new_state[t]
            /\ sfx[t] =
                 IF old_state[t] = new_state[t] THEN <<>>
                 ELSE CASE new_state[t] = STATE_IDLE -> <<"stop">>
                        [] new_state[t] = STATE_AI_SPEAKING -> <<"start">>
                        [] new_state[t] = STATE_USER_SPEAKING ->
                             IF old_state[t] = STATE_AI_SPEAKING
                             THEN <<"stop", "intr">>
                             ELSE <<>>

\* C5 happens: a redundant STATE_AI_SPEAKING request while a worker exists
C5_Witness ==
    /\ pc["rx"] = "unlock"
    /\ old_state["rx"] = STATE_AI_SPEAKING
    /\ new_state["rx"] = STATE_AI_SPEAKING
    /\ sfx["rx"] = <<>>
    /\ \E w \in Workers : wpc[w] # "none"

\* C6: for every final chunk a worker writes to the device, exactly one
\* playback-complete notification (0x50) is sent, not before the settle wait
\* that follows the write is over, and the worker then exits without
\* popping another chunk.
C6_OneCompletePerFinal ==
    /\ \A w \in Workers :
         wlog[w].finals > 0 =>
            /\ wlog[w].finals = 1
            /\ \/ wpc[w] = "drain" /\ wlog[w].completes = 0
               \/ wpc[w] \in {"exit", "disable", "none"} /\ wlog[w].completes = 1
            /\ chunk[w] = NoChunk
    /\ event.kind = "complete" =>
         /\ event.type = 80
         /\ wpc[event.w] = "exit"
         /\ wlog[event.w].completes = 1

\* C6 happens: the notification for a final chunk that was written
C6_Witness ==
    event.kind = "complete" /\ wlog[event.w].finals = 1

\* C7: when a worker that processed a final chunk has exited, the queue holds
\* no chunk that was queued before it finished.
C7_PurgedAfterFinal ==
    (event.kind = "worker_exit" /\ event.final) => audio_playback_queue = <<>>

\* C8: a worker that a stop request found in its pre-buffer wait (depth below
\* the threshold) never enabled the output device and pops and writes no chunk.
C8_StopWhilePrebuffering ==
    \A w \in Workers :
        wlog[w].stopInPrebuf =>
            ~wlog[w].enabled /\ wpc[w] \notin {"recv", "write", "drain"}

\* C9: in a playback session no chunk is written to the device before the
\* queue depth has reached MIN_PREBUFFER_CHUNKS once since the start request.
C9_NoWriteBeforePrebuffer ==
    (event.kind = "write" /\ event.active) => event.reached

\* C10: every call of audio_playback_queue_stop eventually returns, whatever
\* the worker is doing when it is called.
C10_StopReturns ==
    \A t \in Tasks : (pc[t] \in StopPcs) ~> (pc[t] \notin StopPcs)

\* C11: audio_playback_queue_stop called while queue_playback_active is false
\* returns in that step and leaves the flag, the task handle, the queue, the
\* output device and the workers as they are.
C11_StopWhenStoppedNoOp ==
    [][\A t \in Tasks :
         (pc[t] = "stop_chk" /\ ~queue_playback_active /\ pc'[t] # pc[t]) =>
            /\ pc'[t] = AfterStop(t)
            /\ UNCHANGED <<queue_playback_active, queue_playback_task_handle,
                           audio_playback_queue, tx_enabled, wpc, chunk>>]_vars

\* C11 happens: stop has returned early with no worker left and a chunk queued
C11_Witness ==
    /\ event.kind = "stop_return" /\ event.early
    /\ \A w \in Workers : wpc[w] = "none"
    /\ audio_playback_queue # <<>>

\* C12: a push returns in the step it is made; it appends the chunk when the
\* queue holds fewer than AUDIO_QUEUE_LENGTH chunks and otherwise drops it
\* and leaves the queue as it is (so of AUDIO_QUEUE_LENGTH + 1 pushes without
\* a pop the last one is dropped and the others are kept in order).
C12_PushDropsWhenFull ==
    [][(event'.kind = "audio" /\ event'.payload > 0) =>
         LET c == [length |-> IF event'.payload > 1440 THEN 1440 ELSE event'.payload,
                   sequence |-> event'.seq,
                   is_last_chunk |-> event'.is_last,
                   stale |-> FALSE]
         IN  /\ pc'["rx"] = "recv"
             /\ IF Len(audio_playback_queue) < AUDIO_QUEUE_LENGTH
                THEN /\ audio_playback_queue' = Append(audio_playback_queue, c)
                     /\ event'.accepted
                ELSE /\ audio_playback_queue' = audio_playback_queue
                     /\ ~event'.accepted]_vars

\* C12 happens: a push on a full queue of two different chunks was dropped
C12_Witness ==
    /\ event.kind = "audio" /\ event.payload > 0 /\ ~event.accepted
    /\ Len(audio_playback_queue) = AUDIO_QUEUE_LENGTH
    /\ audio_playback_queue[1] # audio_playback_queue[2]
    /\ event.seq # audio_playback_queue[AUDIO_QUEUE_LENGTH].sequence

\* C14: every chunk in the queue has 0 < length <= 1440; a payload longer
\* than 1440 bytes is queued with length 1440, an empty payload is not queued.
C14_ChunkLengths ==
    /\ \A i \in 1..Len(audio_playback_queue) :
         /\ audio_playback_queue[i].length > 0
         /\ audio_playback_queue[i].length <= 1440
    /\ (event.kind = "audio" /\ event.payload = 0) => ~event.accepted
    /\ (event.kind = "audio" /\ event.accepted) =>
         audio_playback_queue[Len(audio_playback_queue)].length =
            (IF event.payload > 1440 THEN 1440 ELSE event.payload)

\* C14 happens: an oversized payload has been queued, truncated
C14_Witness ==
    /\ event.kind = "audio" /\ event.payload = 1441 /\ event.accepted
    /\ audio_playback_queue[Len(audio_playback_queue)].length = 1440

\* C20: for every inbound audio block the tracker adds
\* gap = sequence - last_received_seq - 1 (in the width of the counter) to
\* packets_lost exactly when sequence # last_received_seq + 1 and both are
\* non-zero, adds nothing otherwise, and sets last_received_seq = sequence
\* (a final block's reset comes after that); 5, 6, 8, 9 from a fresh tracker
\* gives packets_lost = 1 and last_received_seq = 9.
C20_LossTracker ==
    /\ [](LossRun(<<0, 0>>, <<5, 6, 8, 9>>) = <<9, 1>>)
    /\ [][event'.kind = "audio" =>
            LET s == event'.seq
                l == last_received_seq
                gap == (s - l - 1) % SeqMod
                counted == s # (l + 1) % SeqMod /\ s # 0 /\ l # 0
            IN  /\ event'.tracked[1] = s
                /\ event'.tracked[2] =
                      (IF counted THEN (packets_lost + gap) % SeqMod ELSE packets_lost)
                /\ ~event'.is_last =>
                      /\ last_received_seq' = s
                      /\ packets_lost' = event'.tracked[2]]_vars

\* C20 happens: block 9 has just been handled, with one block recorded lost
C20_Witness ==
    /\ event.kind = "audio" /\ event.seq = 9 /\ ~event.is_last
    /\ event.tracked = <<9, 1>>
    /\ last_received_seq = 9 /\ packets_lost = 1

\* C16: in USER_SPEAKING, an evaluation at which loudness has been below the
\* stop threshold for at most SILENCE_DURATION_MS - 1 ms leaves the state at
\* USER_SPEAKING; one at which it has been below for SILENCE_DURATION_MS or
\* more requests STATE_IDLE, and its block is not sent.
C16_SilenceTimeout ==
    /\ (event.kind = "eval" /\ event.state = STATE_USER_SPEAKING /\ event.rms < 500) =>
         /\ event.held <= SILENCE_DURATION_MS - 1 => event.to = STATE_USER_SPEAKING
         /\ event.held >= SILENCE_DURATION_MS =>
               /\ event.to = STATE_IDLE
               /\ pc["cap"] = "lock" /\ new_state["cap"] = STATE_IDLE
    /\ event.kind = "send" => event.branch # "silence"

\* C17 as stated: in STATE_IDLE loudness 99 leaves the state alone and
\* loudness 100 or more requests STATE_USER_SPEAKING.
C17_IdleThresholdInclusive ==
    (event.kind = "eval" /\ event.state = STATE_IDLE) =>
        /\ event.rms = 100 - 1 => event.to = STATE_IDLE
        /\ event.rms >= 100 => event.to = STATE_USER_SPEAKING

\* C17 (amended): in STATE_IDLE loudness up to and including 100 leaves the
\* state alone; loudness above 100 makes the evaluation call
\* set_voice_state(STATE_USER_SPEAKING), which sets current_state to it.
C17_IdleThresholdStrict ==
    /\ (event.kind = "eval" /\ event.state = STATE_IDLE) =>
         IF event.rms > 100
         THEN /\ event.to = STATE_USER_SPEAKING
              /\ pc["cap"] = "lock" /\ new_state["cap"] = STATE_USER_SPEAKING
         ELSE /\ event.to = STATE_IDLE
              /\ pc["cap"] = "capture"
    /\ (state_mutex = "cap" /\ branch = "idle") => current_state = STATE_USER_SPEAKING

\* C17 happens: a block of loudness 101 evaluated in STATE_IDLE
C17_Witness ==
    /\ event.kind = "eval" /\ event.state = STATE_IDLE
    /\ event.rms = 101 /\ event.to = STATE_USER_SPEAKING

\* C18: an evaluation in STATE_IDLE with loudness above 100 calls
\* set_voice_state(STATE_USER_SPEAKING), which sets current_state to it; the
\* iteration ends by sending its block with sequence 0, with the silence
\* timer off and the counter at 1; any other evaluation in STATE_IDLE sends
\* nothing.
C18_IdleTransition ==
    [][/\ (event'.kind = "eval" /\ event'.state = STATE_IDLE) =>
            IF event'.rms > 100
            THEN /\ pc'["cap"] = "lock" /\ branch' = "idle"
                 /\ new_state'["cap"] = STATE_USER_SPEAKING
            ELSE /\ pc'["cap"] = "capture" /\ branch' = "none"
                 /\ UNCHANGED sequence
       /\ (branch = "idle" /\ pc["cap"] = "lock" /\ pc'["cap"] # "lock") =>
            current_state' = STATE_USER_SPEAKING
       /\ (branch = "idle" /\ branch' # "idle") =>
            /\ event'.kind = "send" /\ event'.seq = 0
            /\ silence_start' = -1
            /\ sequence' = 1]_vars

\* C18 happens: the block that ended STATE_IDLE has been sent, after an
\* earlier stream had advanced the counter
C18_Witness ==
    /\ event.kind = "send" /\ event.branch = "idle" /\ event.seq = 0
    /\ ~event.interrupt
    /\ sequence = 1 /\ silence_start = -1

\* C19: the counter changes only when a block is sent, and then to the
\* sent number plus one; a block sent by the iteration that moved the state
\* to STATE_USER_SPEAKING carries 0 and every other block the counter's value;
\* the state moves to STATE_USER_SPEAKING only in such an iteration.
C19_SequenceNumbers ==
    [][/\ sequence' # sequence => event'.kind = "send"
       /\ event'.kind = "send" =>
            /\ sequence' = event'.seq + 1
            /\ event'.seq = (IF event'.branch \in {"idle", "ai"} THEN 0 ELSE sequence)
            /\ event'.branch \in {"idle", "ai"} =>
                  old_state["cap"] \in {STATE_IDLE, STATE_AI_SPEAKING}
       /\ (current_state # STATE_USER_SPEAKING /\ current_state' = STATE_USER_SPEAKING) =>
            /\ state_mutex' = "cap"
            /\ branch \in {"idle", "ai"}]_vars

\* C19 happens: the third block of a stream has been sent with number 2
C19_Witness ==
    /\ event.kind = "send" /\ event.branch = "user"
    /\ event.seq = 2 /\ sequence = 3

\* C15: while queue_playback_active is set, a pop of a worker that times out
\* adds exactly one to queue_underrun_count and writes one block of silence
\* to the device; a pop that returns a chunk does neither.
C15_UnderrunOnTimeout ==
    [][\A w \in Workers :
         /\ (wpc[w] = "recv" /\ wpc'[w] = "loop" /\ queue_playback_active) =>
               /\ queue_underrun_count' =
                     (IF queue_underrun_count < MaxCount
                      THEN queue_underrun_count + 1 ELSE queue_underrun_count)
               /\ event' = [kind |-> "silence", w |-> w]
         /\ (wpc[w] = "recv" /\ wpc'[w] = "write") =>
               /\ queue_underrun_count' = queue_underrun_count
               /\ event'.kind # "silence"]_vars

\* C13: a worker pops the chunk at the head of the queue (the one accepted
\* first), and the chunk it popped is the one it then writes to the device:
\* none is skipped, written twice or written out of order.
C13_FifoPlayback ==
    [][\A w \in Workers :
         /\ (wpc[w] = "recv" /\ wpc'[w] = "write") =>
               /\ chunk'[w] = Head(audio_playback_queue)
               /\ audio_playback_queue' = Tail(audio_playback_queue)
         /\ (wpc[w] = "write" /\ wpc'[w] # "write") =>
               /\ event'.kind = "write" /\ event'.w = w
               /\ event'.seq = chunk[w].sequence
               /\ event'.last = chunk[w].is_last_chunk]_vars

\* C21: after the receive task has handled a PLAY_AUDIO_LAST datagram that
\* carries a sequence field, last_received_seq and packets_lost are both 0,
\* whatever the payload length and whether or not the queue took the chunk.
C21_LastResetsTracker ==
    (event.kind = "audio" /\ event.is_last) =>
        (last_received_seq = 0 /\ packets_lost = 0)

\* C22: a STATE_AI_SPEAKING message handled while current_state is another
\* state sets STATE_AI_SPEAKING and creates exactly one playback worker; a
\* STATE_IDLE message handled in STATE_AI_SPEAKING sets STATE_IDLE, and when
\* the handler returns no worker is running and the device is disabled.
C22_StateMessages ==
    [][/\ (pc["rx"] = "start_chk" /\ pc'["rx"] # "start_chk") =>
             pc'["rx"] = "start_purge"
       /\ (pc["rx"] = "start_purge" /\ pc'["rx"] # "start_purge") =>
             /\ Cardinality({w \in Workers : wpc[w] = "none" /\ wpc'[w] = "init"}) = 1
             /\ queue_playback_active'
       /\ (pc["rx"] = "unlock" /\ pc'["rx"] = "recv"
              /\ new_state["rx"] = STATE_AI_SPEAKING
              /\ old_state["rx"] # STATE_AI_SPEAKING) =>
             /\ current_state = STATE_AI_SPEAKING
             /\ sfx["rx"] = <<"start">>
       /\ (pc["rx"] = "unlock" /\ pc'["rx"] = "recv"
              /\ new_state["rx"] = STATE_IDLE
              /\ old_state["rx"] = STATE_AI_SPEAKING) =>
             /\ current_state = STATE_IDLE
             /\ sfx["rx"] = <<"stop">>
             /\ ~queue_playback_active /\ ~tx_enabled
             /\ \A w \in Workers : wpc[w] = "none"]_vars

\* C23: a datagram whose first byte is none of 0x20, 0x21, 0x30, 0x32, and an
\* audio datagram shorter than 5 bytes, is ignored: current_state, the queue,
\* the worker and the loss tracker keep their values and the receive loop goes
\* on to the next datagram.
C23_UnknownIgnored ==
    [][\A m \in IgnoredDatagrams :
          RxDatagram(m) =>
             /\ event'.kind = "ignored"
             /\ pc'["rx"] = "recv"
             /\ UNCHANGED <<current_state, audio_playback_queue, lossVars,
                            queue_playback_active, queue_playback_task_handle,
                            wpc, tx_enabled>>]_vars

C23_Witness ==
    /\ event.kind = "ignored"
    /\ event.type = MaxByte
    /\ current_state = STATE_AI_SPEAKING
    /\ audio_playback_queue # << >>
    /\ \E w \in Workers : wpc[w] # "none"

\* floor(sum of squares / n) of the first n samples, computed sample by sample
\* from the quotients and remainders of the squares
RECURSIVE QuotSum(_, _, _)
QuotSum(data, n, i) ==
    IF i = 0 THEN 0 ELSE QuotSum(data, n, i - 1) + ((data[i] * data[i]) \div n)

RECURSIVE RemSum(_, _, _)
RemSum(data, n, i) ==
    IF i = 0 THEN 0 ELSE RemSum(data, n, i - 1) + ((data[i] * data[i]) % n)

FloorMeanSquare(data, n) == QuotSum(data, n, n) + (RemSum(data, n, n) \div n)

\* C25: audio_calculate_rms returns 0 for a NULL pointer, a count of 0 and a
\* block of zeros; |A| for a block of the constant non-zero sample A; and in
\* every other case the largest r with r * r <= floor(sum of squares / count).
\* No 32-bit intermediate exceeds INT32_MAX and the 64-bit sum stays below
\* count * 2^30.
C25_Rms ==
    event.kind = "rms" =>
        LET b == event.samples
            n == event.sample_count
            r == event.rms
        IN  /\ (b.null \/ n = 0 \/ \A i \in 1..n : b.data[i] = 0) => r = 0
            /\ \A A \in SampleValues \ {0} :
                  (~b.null /\ n > 0 /\ \A i \in 1..n : b.data[i] = A) =>
                      r = (IF A < 0 THEN -A ELSE A)
            /\ (~b.null /\ n > 0) =>
                  /\ r * r <= FloorMeanSquare(b.data, n)
                  /\ (r + 1) * (r + 1) > FloorMeanSquare(b.data, n)
            /\ event.widest <= INT32_MAX
            /\ event.sum[1] <= n * (LimbBase \div 4)
            /\ event.sum[2] < LimbBase

C25_Witness ==
    /\ event.kind = "rms"
    /\ event.sample_count = MaxSamples
    /\ \A i \in 1..MaxSamples : event.samples.data[i] = INT16_MIN
    /\ event.rms = -INT16_MIN

\* C24: an iteration of the capture loop whose capture failed (read error,
\* timeout or short read) is skipped: current_state and sequence keep their
\* values, the silence timer is neither started nor cleared, and the loop is
\* back at the capture without having sent a packet.
C24_CaptureFailureSkips ==
    [][(\/ event'.kind = "capture_failed"
        \/ (event'.kind = "eval" /\ event'.bytes < AUDIO_CHUNK_SIZE_OUTPUT)) =>
          /\ pc'["cap"] = "capture"
          /\ UNCHANGED <<current_state, sequence>>
          /\ (silence_start' = -1) <=> (silence_start = -1)]_vars

\* C26: the silence timer is cleared by every change of current_state: an
\* evaluation in STATE_USER_SPEAKING finds the timer running only if an
\* earlier evaluation of the same stay in STATE_USER_SPEAKING was quiet, so
\* the first quiet block after an interrupt never requests STATE_IDLE.
C26_TimerClearedOnChange ==
    [][(event'.kind = "eval" /\ event'.state = STATE_USER_SPEAKING) =>
          /\ silence_start # -1 => held # -1
          /\ event'.to = STATE_IDLE => held # -1]_vars

\* C27: a task that holds state_mutex never has to wait for another task: if
\* it is in the wait loop of audio_playback_queue_stop, the worker handle is
\* already NULL and the loop ends at once.
C27_HolderNeverWaits ==
    \A t \in Tasks : (state_mutex = t /\ pc[t] = "stop_wait") => StopWaitOver

\* C28: current_state is written only by a task that takes state_mutex for
\* the write and read only while no other task holds it; a task is inside a
\* transition or its side effects only as the holder of state_mutex, and the
\* lock passes from one task to another only by being released.
C28_StateUnderLock ==
    [][/\ current_state' # current_state =>
             /\ state_mutex = FREE /\ state_mutex' \in Tasks
             /\ pc[state_mutex'] = "lock"
       /\ event'.kind = "eval" =>
             /\ state_mutex = FREE /\ state_mutex' = FREE
             /\ event'.state = current_state
       /\ \A t \in Tasks : pc'[t] \in LockedPcs => state_mutex' = t
       /\ state_mutex # FREE => state_mutex' \in {state_mutex, FREE}]_vars

C28_Witness ==
    /\ state_mutex = "cap"
    /\ pc["cap"] \in StopPcs
    /\ pc["rx"] = "lock"
    /\ current_state # new_state["rx"]

\* C29: whenever a worker disables the output device on its way out, it has
\* written a full block of silence to the enabled device and has then waited
\* for the block to be emitted.
C29_SilenceBeforeDisable ==
    event.kind = "worker_exit" => (event.flushed /\ event.waited > 0)

\* C30: a playback session starts with its counters at 0: packets_lost when
\* audio_playback_queue_start creates the worker, total_chunks_played and
\* queue_underrun_count when the worker has passed its start-up.
C30_CountersZeroAtStart ==
    [][\A w \in Workers :
         /\ (wpc[w] = "none" /\ wpc'[w] = "init") => packets_lost' = 0
         /\ (wpc[w] = "init" /\ wpc'[w] = "prebuf") =>
               /\ total_chunks_played' = 0
               /\ queue_underrun_count' = 0]_vars

\* C31: the resampled block has half the samples of the captured block and
\* its sample i is the captured sample 2 * i; a captured block of 3840 bytes
\* gives an output block of 1920 bytes.
C31_Decimation ==
    /\ event.kind = "resample" =>
          /\ 2 * Len(event.output) = Len(event.input)
          /\ \A i \in 0..(Len(event.output) - 1) :
                event.output[i + 1] = event.input[2 * i + 1]
    /\ ((AUDIO_CHUNK_SIZE_CAPTURE \div 2) \div 2) * 2 = AUDIO_CHUNK_SIZE_OUTPUT

C31_Witness ==
    /\ event.kind = "resample"
    /\ event.input[1] = INT16_MIN /\ event.input[2] = INT16_MAX
    /\ event.input[3] = 4 /\ event.input[4] = 0
    /\ event.output[1] = INT16_MIN /\ event.output[2] = 4

\* C32: at most one playback worker exists at any time: no worker is created
\* while an earlier one has not finished its exit path.
C32_AtMostOneWorker ==
    Cardinality({w \in Workers : wpc[w] # "none"}) <= 1

\* C33: whenever state_mutex is free, queue_playback_active is set only if
\* current_state is STATE_AI_SPEAKING.
\* The flag is set only by the task that holds state_mutex for a transition
\* into STATE_AI_SPEAKING.
C33_ActiveOnlyWhileAi ==
    [][/\ (state_mutex' = FREE /\ queue_playback_active') =>
             current_state' = STATE_AI_SPEAKING
       /\ (queue_playback_active' /\ ~queue_playback_active) =>
             /\ state_mutex \in Tasks
             /\ new_state[state_mutex] = STATE_AI_SPEAKING
             /\ old_state[state_mutex] # STATE_AI_SPEAKING
             /\ current_state = STATE_AI_SPEAKING]_vars

C33_Witness ==
    /\ state_mutex = FREE
    /\ pc["cap"] = "send" /\ Interrupted
    /\ current_state = STATE_USER_SPEAKING
    /\ ~queue_playback_active

\* C34: an interrupt signal is sent only for a block whose loudness is above
\* RMS_THRESHOLD_INTERRUPT, also when the receive task changes current_state
\* between the capture loop's snapshot and its transition request.
C34_InterruptOnlyWhenLoud ==
    event.kind = "interrupt" => rms > RMS_THRESHOLD_INTERRUPT

\* C35: the capture loop never changes current_state from STATE_AI_SPEAKING
\* to STATE_IDLE, also when a silence timeout was decided on a snapshot the
\* receive task has overtaken since.
C35_CaptureNeverEndsAi ==
    [][(current_state = STATE_AI_SPEAKING /\ current_state' = STATE_IDLE) =>
          state_mutex' # "cap"]_vars

\* C36: the worker sends no playback-complete message while a stop request is
\* waiting for it to exit: a stop that arrives during the settle wait after the
\* final block makes the worker leave without the message.
C36_NoCompleteAfterStop ==
    [][event'.kind = "complete" => \A t \in Tasks : pc[t] # "stop_wait"]_vars

\* a call of audio_playback_queue_stop is in progress
StopRequested == \E t \in Tasks : pc[t] \in StopPcs

\* C37: a final block accepted into the queue of a running session, whose
\* worker is waiting for the pre-buffer, leads to the playback-complete message
\* unless a stop is requested, under fair scheduling and for every utterance
\* length, also one shorter than the pre-buffer threshold.
C37_FinalBlockCompletes ==
    (event.kind = "audio" /\ event.is_last /\ event.accepted
        /\ queue_playback_active /\ \E w \in Workers : wpc[w] = "prebuf")
      ~> (event.kind = "complete" \/ StopRequested)

\* C38: what the handling of an inbound audio block adds to packets_lost (in
\* the width of the counter) is at most the block's sequence number, and is 0
\* when that number is at most last_received_seq: the subtraction never wraps.
C38_LossNeverWraps ==
    [][event'.kind = "audio" =>
          LET added == (event'.tracked[2] - packets_lost) % SeqMod
          IN  /\ added <= event'.seq
              /\ event'.seq <= last_received_seq => added = 0]_vars

\* C39: with no message from the peer, once the capture loop has streamed and
\* gone back to STATE_IDLE (which only its silence timeout does), a block
\* evaluated in STATE_IDLE whose loudness is below AUDIO_RMS_STOP_THRESHOLD
\* leaves the state at STATE_IDLE: loudness that counted as silence in
\* STATE_USER_SPEAKING does not start a new recording.
C39_SilenceStaysIdle ==
    [][(/\ event'.kind = "eval"
        /\ sequence >= 1
        /\ current_state = STATE_IDLE
        /\ event'.rms < AUDIO_RMS_STOP_THRESHOLD) => event'.to = STATE_IDLE]_vars

\* C40: while tx_handle or audio_playback_queue is still NULL no playback
\* worker exists, no call of audio_playback_queue_start or purge of the queue
\* is in progress, and the receive task has not called
\* set_voice_state(STATE_AI_SPEAKING): a STATE_AI_SPEAKING message that
\* arrives during the start-up does not get through the callback.
C40_NoPlaybackBeforeInit ==
    (\/ \E w \in Workers : wpc[w] # "none"
     \/ pc["rx"] \in {"start_chk", "start_purge", "stop_purge", "panic"}
     \/ pc["rx"] = "lock" /\ new_state["rx"] = STATE_AI_SPEAKING)
      => (TxHandleSet /\ QueueCreated)

============================================================================
